---- MODULE Spec2Model ----
(***************************************************************************)
(* Model of math_assist's history tracking: IndexSource, WorkStep,         *)
(* WorkingHistory (parent propagation, combined-step grouping, sinks),     *)
(* Expression and Equation.  The objects modelled are one Equation (its    *)
(* combined History "eq" and its sides "left" and "right") and one         *)
(* standalone Expression "exp".                                            *)
(*                                                                         *)
(* Encoding.  A symbolic value is an integer (a sympy.Integer).  Every     *)
(* snapshot stored in a WorkStep is a tuple of integers: <<>> is Python's  *)
(* None, <<v>> is the expression v, <<l, r>> is sympy.Eq(l, r).  Optional  *)
(* fields use the same convention: <<>> is None and <<x>> is x.            *)
(* A Python exception is the field exc of the state record; a method that  *)
(* is entered with exc set does nothing (the exception is propagating).    *)
(***************************************************************************)
EXTENDS Integers, Sequences, FiniteSets, TLC

\* ---------------------------------------------------------------- bounds
MaxIndex == 2
MaxOperand == 2
MaxInit == 1
MaxLines == 2

\* ------------------------------------------------------------- constants
None == <<>>
Some(x) == <<x>>
NoExc == "None"

Sides == {"left", "right"}
Exprs == Sides \cup {"exp"}
HistIds == {"eq"} \cup Exprs
GoodSinks == {"md1"}
BadSinks == {"bad"}
Sinks == GoodSinks \cup BadSinks
\* The sinks used with the standalone Expression: two that record what they
\* are called with and one that raises.
ExpSinks == {"md1", "md2"} \cup BadSinks

\* An operand of type MathArg: an int, or one of the Equation's own
\* Expression objects (alias), whose value is read when as_expr runs.
IntArg(k) == [alias |-> "none", value |-> k]
ExprArg(e) == [alias |-> e, value |-> 0]
IntOperands == {IntArg(k) : k \in 2..MaxOperand}
Operands == IntOperands \cup {ExprArg(e) : e \in Sides}

\* Callables handed to apply: sympy.factor leaves a sympy.Integer as it
\* is, sympy.Abs maps it to its absolute value, and "raiser" stands for a
\* transform that raises.
Transforms == {"factor", "Abs", "raiser"}

sympy_func(f, v) == IF f = "Abs" THEN (IF v < 0 THEN -v ELSE v) ELSE v
sympy_func_raises(f) == f = "raiser"

VARIABLES
    index,             \* IndexSource._index of the source each History was built with
    expr,              \* Expression._expr of the left, right and standalone Expression
    history,           \* WorkingHistory._history, per History
    last_state,        \* WorkingHistory._last_state
    current_state,     \* WorkingHistory._current_state
    outputs,           \* WorkingHistory._outputs (attachment order)
    combined_context,  \* WorkingHistory._combined_context
    substitutions,     \* Expression._substitutions, per Expression
    constructed,       \* the values the Expressions were constructed with
    lines,             \* the calls made to the sinks, in the order they were made
    call               \* the caller's view of the most recent call

vars == <<index, expr, history, last_state, current_state, outputs,
          combined_context, substitutions, constructed, lines, call>>

\* The program state as one record, threaded through the methods.
S == [index |-> index, expr |-> expr, history |-> history,
      last_state |-> last_state, current_state |-> current_state,
      outputs |-> outputs, combined_context |-> combined_context,
      substitutions |-> substitutions, lines |-> lines, exc |-> NoExc]

Raised(s) == s.exc # NoExc
raise(s, e) == [s EXCEPT !.exc = e]

\* ------------------------------------------------------------ _history.py
\* WorkingHistory._parent: the side Histories are parented to the combined one.
parent(h) == IF h = "left" THEN Some([tag |-> "left side", history |-> "eq"])
             ELSE IF h = "right" THEN Some([tag |-> "right side", history |-> "eq"])
             ELSE None

WorkStep(i, description, args, before, after, suffix, children) ==
    [index |-> i, description |-> description, args |-> args,
     before |-> before, after |-> after, suffix |-> suffix,
     children |-> children]

\* Items of one sink call: a string, or a value rendered as latex.
Str(t) == [text |-> t, val |-> <<>>, isstr |-> TRUE]
Val(v) == [text |-> "", val |-> v, isstr |-> FALSE]

ArgItems(args) == [i \in 1..Len(args) |-> Val(args[i])]

\* A sink call output(*items, inline=...); a sink of BadSinks raises.
output_call(s, o, items, inline) ==
    IF Raised(s) THEN s
    ELSE IF o \in BadSinks THEN raise(s, "SinkError")
    ELSE [s EXCEPT !.lines = Append(@, [sink |-> o, items |-> items,
                                        inline |-> inline])]

_write_step(s, step, o) ==
    LET sfx == IF step.suffix = None THEN "" ELSE step.suffix[1]
        s1 == output_call(s, o, <<Str(step.description)>> \o ArgItems(step.args)
                                   \o <<Str(sfx)>>, TRUE)
    IN output_call(s1, o, <<Val(step.after)>>, FALSE)

\* Variant: the sinks are notified from the last attached to the first.
RECURSIVE write_outputs_mut_reversed(_, _, _)
write_outputs_mut_reversed(s, step, outs) ==
    IF Raised(s) \/ outs = <<>> THEN s
    ELSE write_outputs_mut_reversed(_write_step(s, step, outs[Len(outs)]), step,
                                    SubSeq(outs, 1, Len(outs) - 1))

RECURSIVE write_outputs(_, _, _)
write_outputs(s, step, outs) ==
    IF Raised(s) \/ outs = <<>> THEN s
    ELSE write_outputs(_write_step(s, step, Head(outs)), step, Tail(outs))

\* Variant: a History with a parent keeps the index source it was built with.
index_source_mut_own(h) == h

\* WorkingHistory.__init__: a History with a parent uses its parent's
\* index source instead of its own.
index_source(h) == IF parent(h) # None THEN parent(h)[1].history ELSE h

\* IndexSource.take on History h's source: the value returned is
\* peek(s, h), the counter before the call.
peek(s, h) == s.index[index_source(h)]
take(s, h) == [s EXCEPT !.index[index_source(h)] = @ + 1]

update(s, h, new_state) ==
    [s EXCEPT !.last_state[h] = s.current_state[h],
              !.current_state[h] = new_state]

\* Variant: the combined state is the snapshot cached at the last update.
as_sympy_mut_cached(s) == s.current_state["eq"]

\* Equation.as_sympy, the get_combined_state of the combined History.
as_sympy(s) == <<s.expr["left"], s.expr["right"]>>

ParentStepContext(tag) == [tag |-> tag, sub_steps |-> <<>>]

RECURSIVE _append_step(_, _, _)
RECURSIVE _append_by_child(_, _, _, _)

\* Variant: the step is stored and written but not handed to the parent.
_append_step_mut_noparent(s, h, step) ==
    IF Raised(s) THEN s
    ELSE LET s1 == [s EXCEPT !.history[h] = Append(@, step)]
         IN write_outputs(s1, step, s1.outputs[h])

\* Variant: the History's own sinks are notified before the step is stored
\* and propagated.
_append_step_mut_notify_first(s, h, step) ==
    IF Raised(s) THEN s
    ELSE LET s1 == write_outputs(s, step, s.outputs[h])
         IN IF Raised(s1) THEN s1
            ELSE LET s2 == [s1 EXCEPT !.history[h] = Append(@, step)]
                 IN IF parent(h) # None
                    THEN _append_by_child(s2, parent(h)[1].history, step,
                                          parent(h)[1].tag)
                    ELSE s2

\* Variant: the History's own sinks are notified before the step is
\* propagated to the parent.
_append_step_mut_own_first(s, h, step) ==
    IF Raised(s) THEN s
    ELSE LET s1 == [s EXCEPT !.history[h] = Append(@, step)]
             s2 == write_outputs(s1, step, s1.outputs[h])
         IN IF parent(h) # None
            THEN _append_by_child(s2, parent(h)[1].history, step,
                                  parent(h)[1].tag)
            ELSE s2

\* Variant: the new step is put at the head of the log.
_append_step_mut_prepend(s, h, step) ==
    IF Raised(s) THEN s
    ELSE LET s1 == [s EXCEPT !.history[h] = <<step>> \o @]
             s2 == IF parent(h) # None
                   THEN _append_by_child(s1, parent(h)[1].history, step,
                                         parent(h)[1].tag)
                   ELSE s1
         IN write_outputs(s2, step, s2.outputs[h])

_append_step(s, h, step) ==
    IF Raised(s) THEN s
    ELSE LET s1 == [s EXCEPT !.history[h] = Append(@, step)]
             s2 == IF parent(h) # None
                   THEN _append_by_child(s1, parent(h)[1].history, step,
                                         parent(h)[1].tag)
                   ELSE s1
         IN write_outputs(s2, step, s2.outputs[h])

\* Variant: the propagated copy keeps the child's suffix.
_append_by_child_mut_suffix(s, h, step, tag) ==
    IF Raised(s) THEN s
    ELSE LET s1 == update(s, h, as_sympy(s))
             copy == [step EXCEPT !.before = s1.last_state[h],
                                  !.after = s1.current_state[h]]
         IN IF s1.combined_context[h] # None
            THEN [s1 EXCEPT !.combined_context[h] =
                      Some([@[1] EXCEPT !.sub_steps = Append(@, copy)])]
            ELSE _append_step(s1, h, copy)

_append_by_child(s, h, step, tag) ==
    IF Raised(s) THEN s
    ELSE LET s1 == update(s, h, as_sympy(s))
             copy == [step EXCEPT !.suffix = Some(" on " \o tag),
                                  !.before = s1.last_state[h],
                                  !.after = s1.current_state[h]]
         IN IF s1.combined_context[h] # None
            THEN [s1 EXCEPT !.combined_context[h] =
                      Some([@[1] EXCEPT !.sub_steps = Append(@, copy)])]
            ELSE _append_step(s1, h, copy)

append(s, h, description, arg_list, new_state) ==
    IF Raised(s) THEN s
    ELSE LET s1 == update(s, h, new_state)
             step == WorkStep(peek(s1, h), description, arg_list,
                              s1.last_state[h], s1.current_state[h], None, None)
         IN _append_step(take(s1, h), h, step)

\* The keyword parameters WorkingHistory.combined_step declares besides tag.
combined_step_keywords == {}

\* Variant: a grouping context that is already active is kept.
combined_step_mut_keep(s, h, tag, kw) ==
    IF Raised(s) THEN s
    ELSE IF ~(kw \subseteq combined_step_keywords) THEN raise(s, "TypeError")
    ELSE IF s.combined_context[h] # None THEN s
    ELSE [s EXCEPT !.combined_context[h] = Some(ParentStepContext(tag))]

\* combined_step(tag, **kw): Python binds the arguments before the body
\* runs and raises TypeError for a keyword the signature does not declare.
combined_step(s, h, tag, kw) ==
    IF Raised(s) THEN s
    ELSE IF ~(kw \subseteq combined_step_keywords) THEN raise(s, "TypeError")
    ELSE [s EXCEPT !.combined_context[h] = Some(ParentStepContext(tag))]

\* Variant: the aggregate step reuses the index of its first sub-step.
end_combined_step_mut_reuse(s, h) ==
    IF Raised(s) THEN s
    ELSE IF s.combined_context[h] # None
    THEN LET ctx == s.combined_context[h][1]
         IN IF ctx.sub_steps = <<>> THEN raise(s, "IndexError")
            ELSE LET first_step == ctx.sub_steps[1]
                     last_step == ctx.sub_steps[Len(ctx.sub_steps)]
                     step == WorkStep(first_step.index, first_step.description,
                                      first_step.args, first_step.before,
                                      last_step.after, Some(ctx.tag),
                                      Some(ctx.sub_steps))
                     s1 == _append_step(s, h, step)
                 IN IF Raised(s1) THEN s1
                    ELSE [s1 EXCEPT !.combined_context[h] = None]
    ELSE [s EXCEPT !.combined_context[h] = None]

end_combined_step(s, h) ==
    IF Raised(s) THEN s
    ELSE IF s.combined_context[h] # None
    THEN LET ctx == s.combined_context[h][1]
         IN IF ctx.sub_steps = <<>> THEN raise(s, "IndexError")
            ELSE LET first_step == ctx.sub_steps[1]
                     last_step == ctx.sub_steps[Len(ctx.sub_steps)]
                     step == WorkStep(peek(s, h), first_step.description,
                                      first_step.args, first_step.before,
                                      last_step.after, Some(ctx.tag),
                                      Some(ctx.sub_steps))
                     s1 == _append_step(take(s, h), h, step)
                 IN IF Raised(s1) THEN s1
                    ELSE [s1 EXCEPT !.combined_context[h] = None]
    ELSE [s EXCEPT !.combined_context[h] = None]

\* Variant: the sink is appended whether or not it is already attached.
attach_output_mut_dup(s, h, o) == [s EXCEPT !.outputs[h] = Append(@, o)]

attach_output(s, h, o) ==
    IF \E i \in 1..Len(s.outputs[h]) : s.outputs[h][i] = o THEN s
    ELSE [s EXCEPT !.outputs[h] = Append(@, o)]

detach_output(s, h, o) ==
    [s EXCEPT !.outputs[h] = SelectSeq(@, LAMBDA x : x # o)]

detach_all_outputs(s, h) == [s EXCEPT !.outputs[h] = <<>>]

\* Variant: the log is looked at before anything is written.
_write_start_state_mut_checkfirst(s, h, o) ==
    IF s.history[h] = <<>> THEN raise(s, "IndexError")
    ELSE output_call(output_call(s, o, <<Str("Initial state")>>, FALSE),
                     o, <<Val(s.history[h][1].before)>>, FALSE)

\* WorkingHistory._write_start_state: the heading is written before
\* self._history[0] is evaluated, which raises IndexError on an empty log.
_write_start_state(s, h, o) ==
    LET s1 == output_call(s, o, <<Str("Initial state")>>, FALSE)
    IN IF Raised(s1) THEN s1
       ELSE IF s1.history[h] = <<>> THEN raise(s1, "IndexError")
       ELSE output_call(s1, o, <<Val(s1.history[h][1].before)>>, FALSE)

RECURSIVE write_steps(_, _, _)
write_steps(s, steps, o) ==
    IF Raised(s) \/ steps = <<>> THEN s
    ELSE write_steps(_write_step(s, Head(steps), o), Tail(steps), o)

\* Variant: the log is replayed from its last step to its first.
write_all_to_mut_reversed(s, h, o, skip_start_state) ==
    LET s1 == IF skip_start_state THEN s ELSE _write_start_state(s, h, o)
        q == s1.history[h]
    IN write_steps(s1, [i \in 1..Len(q) |-> q[Len(q) + 1 - i]], o)

write_all_to(s, h, o, skip_start_state) ==
    LET s1 == IF skip_start_state THEN s ELSE _write_start_state(s, h, o)
    IN write_steps(s1, s1.history[h], o)

\* --------------------------------------------------------- _expression.py
as_expr(s, item) == IF item.alias # "none" THEN s.expr[item.alias] ELSE item.value

\* Variant: the step is recorded before the transform is called.
Expression_apply_mut_early(s, e, f, description) ==
    IF Raised(s) THEN s
    ELSE LET d == IF description = None THEN "Apply '" \o f \o "'"
                  ELSE description[1]
             s1 == append(s, e, d, <<>>, <<sympy_func(f, s.expr[e])>>)
         IN IF Raised(s1) THEN s1
            ELSE IF sympy_func_raises(f) THEN raise(s1, "TransformError")
            ELSE [s1 EXCEPT !.expr[e] = sympy_func(f, @)]

\* Expression.apply(sympy_func, description=...): the value is reassigned
\* only when the transform returned.
Expression_apply(s, e, f, description) ==
    IF Raised(s) THEN s
    ELSE LET d == IF description = None THEN "Apply '" \o f \o "'"
                  ELSE description[1]
         IN IF sympy_func_raises(f) THEN raise(s, "TransformError")
            ELSE LET s1 == [s EXCEPT !.expr[e] = sympy_func(f, @)]
                 IN append(s1, e, d, <<>>, <<s1.expr[e]>>)

Expression_add(s, e, other) ==
    IF Raised(s) THEN s
    ELSE LET o == as_expr(s, other)
             s1 == [s EXCEPT !.expr[e] = @ + o]
         IN append(s1, e, "Add", << <<o>> >>, <<s1.expr[e]>>)

\* Variant: the step is recorded with the value held before the subtraction.
Expression_subtract_mut_stale(s, e, other) ==
    IF Raised(s) THEN s
    ELSE LET o == as_expr(s, other)
             s1 == [s EXCEPT !.expr[e] = @ - o]
         IN append(s1, e, "Subtract", << <<o>> >>, <<s.expr[e]>>)

Expression_subtract(s, e, other) ==
    IF Raised(s) THEN s
    ELSE LET o == as_expr(s, other)
             s1 == [s EXCEPT !.expr[e] = @ - o]
         IN append(s1, e, "Subtract", << <<o>> >>, <<s1.expr[e]>>)

Expression_multiply_by(s, e, other) ==
    IF Raised(s) THEN s
    ELSE LET o == as_expr(s, other)
             s1 == [s EXCEPT !.expr[e] = @ * o]
         IN append(s1, e, "Multiply by", << <<o>> >>, <<s1.expr[e]>>)

Expression_factor(s, e) == Expression_apply(s, e, "factor", Some("Factor terms"))

\* Arguments of substitute: an expression a, a sympy.Eq(a, b), or another
\* Equation object whose sides hold a and b.
SubExpr(a) == [kind |-> "expr", a |-> a, b |-> 0]
SubEq(a, b) == [kind |-> "Eq", a |-> a, b |-> b]
SubEquation(a, b) == [kind |-> "Equation", a |-> a, b |-> b]

\* sympy's subs on an integer atom: the whole value is replaced when it is a.
subs(v, a, b) == IF v = a THEN b ELSE v

_substitute(s, e, a, b, description, ignore_args) ==
    IF Raised(s) THEN s
    ELSE LET s1 == [s EXCEPT !.expr[e] = subs(@, a, b)]
             s2 == append(s1, e, description,
                          IF ignore_args THEN <<>> ELSE << <<a, b>> >>,
                          <<s1.expr[e]>>)
         IN IF Raised(s2) THEN s2
            ELSE [s2 EXCEPT !.substitutions[e] = Append(@, <<a, b>>)]

\* Variant: arguments after the second are ignored.
Expression_substitute_mut_lenient(s, e, args, description, ignore_args) ==
    IF Raised(s) THEN s
    ELSE IF Len(args) = 1
    THEN IF args[1].kind \in {"Eq", "Equation"}
         THEN _substitute(s, e, args[1].a, args[1].b, description, ignore_args)
         ELSE raise(s, "ValueError")
    ELSE IF Len(args) >= 2
    THEN _substitute(s, e, args[1].a, args[2].a, description, ignore_args)
    ELSE raise(s, "ValueError")

\* Variant: an Equation argument is read as (right, left).
Expression_substitute_mut_reversed(s, e, args, description, ignore_args) ==
    IF Raised(s) THEN s
    ELSE IF Len(args) = 1
    THEN IF args[1].kind = "Eq"
         THEN _substitute(s, e, args[1].a, args[1].b, description, ignore_args)
         ELSE IF args[1].kind = "Equation"
         THEN _substitute(s, e, args[1].b, args[1].a, description, ignore_args)
         ELSE raise(s, "ValueError")
    ELSE IF Len(args) = 2
    THEN _substitute(s, e, args[1].a, args[2].a, description, ignore_args)
    ELSE raise(s, "ValueError")

Expression_substitute(s, e, args, description, ignore_args) ==
    IF Raised(s) THEN s
    ELSE IF Len(args) = 1
    THEN IF args[1].kind \in {"Eq", "Equation"}
         THEN _substitute(s, e, args[1].a, args[1].b, description, ignore_args)
         ELSE raise(s, "ValueError")
    ELSE IF Len(args) = 2
    THEN _substitute(s, e, args[1].a, args[2].a, description, ignore_args)
    ELSE raise(s, "ValueError")

ArithOps == {"add", "subtract", "multiply_by"}

Expression_arith(s, e, op, other) ==
    IF op = "add" THEN Expression_add(s, e, other)
    ELSE IF op = "subtract" THEN Expression_subtract(s, e, other)
    ELSE Expression_multiply_by(s, e, other)

\* Expression.attach_output(output, skip_start_state)
Expression_attach_output(s, e, o, skip_start_state) ==
    LET s1 == IF skip_start_state THEN s
              ELSE output_call(output_call(s, o, <<Str("Initial expression:")>>, FALSE),
                               o, <<Val(<<s.expr[e]>>)>>, FALSE)
    IN IF Raised(s1) THEN s1 ELSE attach_output(s1, e, o)

Expression_detach_output(s, e, o) == detach_output(s, e, o)

Expression_write_history_to(s, e, o, skip_start_state) ==
    write_all_to(s, e, o, skip_start_state)

\* ----------------------------------------------------------- _equation.py
Equation_attach_output(s, o, skip_start_state) ==
    LET s1 == IF skip_start_state THEN s
              ELSE output_call(output_call(s, o, <<Str("Initial equation:")>>, FALSE),
                               o, <<Val(as_sympy(s))>>, FALSE)
    IN IF Raised(s1) THEN s1 ELSE attach_output(s1, "eq", o)

Equation_detach_output(s, o) == detach_output(s, "eq", o)

\* Equation._combined_step_context passes description= and args= on to
\* WorkingHistory.combined_step.
_combined_step_context(s, description, tag, args) ==
    combined_step(s, "eq", IF tag = None THEN "on both sides" ELSE tag[1],
                  {"description", "args"})

\* ParentStepContext.__exit__ at the end of a with block: the scope is
\* ended whether or not the body raised; __exit__ returns None, so the
\* body's exception goes on propagating unless ending the scope raises.
ParentStepContext_exit(s) ==
    LET s1 == end_combined_step([s EXCEPT !.exc = NoExc], "eq")
    IN IF Raised(s1) THEN s1 ELSE [s1 EXCEPT !.exc = s.exc]

\* Each Equation-wide operation is "with <ctx>: <body>": sctx is the state
\* after evaluating the context expression, and the body and __exit__ do
\* not run when that raised.
Equation_arith(s, op, other) ==
    LET sctx == _combined_step_context(s, None, None, None)
        body == Expression_arith(Expression_arith(sctx, "left", op, other),
                                 "right", op, other)
    IN IF Raised(sctx) THEN sctx ELSE ParentStepContext_exit(body)

Equation_factor(s) ==
    LET sctx == _combined_step_context(s, None, None, None)
        body == Expression_factor(Expression_factor(sctx, "left"), "right")
    IN IF Raised(sctx) THEN sctx ELSE ParentStepContext_exit(body)

Equation_swap_sides(s) ==
    LET sctx == _combined_step_context(s, Some("Swap left and right sides"),
                                       Some(""), Some(<<>>))
        lhs == IntArg(sctx.expr["left"])
        rhs == IntArg(sctx.expr["right"])
        b1 == Expression_subtract(sctx, "left", lhs)
        b2 == Expression_subtract(b1, "left", rhs)
        b3 == Expression_subtract(b2, "right", lhs)
        b4 == Expression_subtract(b3, "right", rhs)
        b5 == Expression_multiply_by(b4, "right", IntArg(-1))
        body == Expression_multiply_by(b5, "left", IntArg(-1))
    IN IF Raised(sctx) THEN sctx ELSE ParentStepContext_exit(body)

Equation_substitute(s, args, description, ignore_args) ==
    LET sctx == _combined_step_context(s, description, None, None)
        body == Expression_substitute(
                    Expression_substitute(sctx, "left", args, "Substitute", ignore_args),
                    "right", args, "Substitute", ignore_args)
    IN IF Raised(sctx) THEN sctx ELSE ParentStepContext_exit(body)

\* Variant: the transform is applied to right before left.
Equation_apply_mut_right_first(s, f, description) ==
    Expression_apply(Expression_apply(s, "right", f, description),
                     "left", f, description)

\* Equation.apply: no grouping context.
Equation_apply(s, f, description) ==
    Expression_apply(Expression_apply(s, "left", f, description),
                     "right", f, description)

\* ---------------------------------------------------------------- actions
NoArg == IntArg(0)

Call(obj, op, arg, f, s) ==
    [obj |-> obj, op |-> op, arg |-> arg, f |-> f, nargs |-> 0, args |-> <<>>,
     description |-> None, sink |-> "", skip |-> FALSE, exc |-> s.exc]

Commit(s, c) ==
    /\ index' = s.index
    /\ expr' = s.expr
    /\ history' = s.history
    /\ last_state' = s.last_state
    /\ current_state' = s.current_state
    /\ outputs' = s.outputs
    /\ combined_context' = s.combined_context
    /\ substitutions' = s.substitutions
    /\ constructed' = constructed
    /\ lines' = s.lines
    /\ call' = c

\* Equation(L, R) and Expression(1), with no sink attached and no call
\* made yet.  Equation.__init__ builds the side Histories with a parent and
\* no current_state and then updates the combined History with as_sympy();
\* Expression.__init__ builds the standalone Expression's own History with
\* current_state = its value.
Init ==
    /\ index = [h \in HistIds |-> 0]
    /\ expr \in {[left |-> l, right |-> r, exp |-> 1] : l \in 1..MaxInit, r \in {0, 3}}
    /\ history = [h \in HistIds |-> <<>>]
    /\ last_state = [h \in HistIds |-> None]
    /\ current_state = [h \in HistIds |->
                          IF h = "eq" THEN <<expr["left"], expr["right"]>>
                          ELSE IF h = "exp" THEN <<expr["exp"]>>
                          ELSE None]
    /\ outputs = [h \in HistIds |-> <<>>]
    /\ combined_context = [h \in HistIds |-> None]
    /\ substitutions = [e \in Exprs |-> <<>>]
    /\ constructed = expr
    /\ lines = <<>>
    /\ call = [obj |-> "", op |-> "init", arg |-> NoArg, f |-> "", nargs |-> 0,
               args |-> <<>>, description |-> None, sink |-> "", skip |-> FALSE,
               exc |-> NoExc]

\* eq.left.<op>(other), eq.right.<op>(other)
SideArith ==
    \E e \in Sides, op \in ArithOps, other \in IntOperands :
        /\ index["eq"] < MaxIndex
        /\ LET s == Expression_arith(S, e, op, other)
           IN Commit(s, Call(e, op, other, "", s))

\* eq.left.apply(f), eq.right.apply(f); factor() is apply with its own
\* description.
SideApply ==
    \E e \in Sides, f \in Transforms :
        /\ index["eq"] < MaxIndex
        /\ LET s == IF f = "factor" THEN Expression_factor(S, e)
                    ELSE Expression_apply(S, e, f, None)
               op == IF f = "factor" THEN f ELSE "apply"
           IN Commit(s, Call(e, op, NoArg, f, s))

\* eq.add(other), eq.subtract(other), eq.multiply_by(other)
EqArith ==
    \E op \in ArithOps, other \in Operands :
        /\ index["eq"] < MaxIndex
        /\ LET s == Equation_arith(S, op, other)
           IN Commit(s, Call("eq", op, other, "", s))

\* eq.factor()
EqTransform ==
    \E f \in {"factor"} :
        /\ index["eq"] < MaxIndex
        /\ LET s == Equation_factor(S)
           IN Commit(s, Call("eq", f, NoArg, f, s))

\* eq.swap_sides()
EqSwapSides ==
    /\ index["eq"] < MaxIndex
    /\ LET s == Equation_swap_sides(S)
       IN Commit(s, Call("eq", "swap_sides", NoArg, "", s))

\* eq.apply(f)
EqApply ==
    \E f \in Transforms :
        /\ index["eq"] < MaxIndex
        /\ LET s == Equation_apply(S, f, None)
           IN Commit(s, Call("eq", "apply", NoArg, f, s))

\* The argument lists substitute is called with: none, one expression,
\* one sympy.Eq, one Equation, a pair, and three expressions.
SubArgLists ==
    {<<>>} \cup {<<SubExpr(a)>> : a \in 1..MaxInit}
           \cup {<<SubEq(a, 2)>> : a \in 1..MaxInit}
           \cup {<<SubEquation(a, 2)>> : a \in 1..MaxInit}
           \cup {<<SubExpr(a), SubExpr(2)>> : a \in 1..MaxInit}
           \cup {<<SubExpr(a), SubExpr(2), SubExpr(2)>> : a \in 1..MaxInit}

\* eq.substitute(*args), eq.substitute(*args, description="Replace")
EqSubstitute ==
    \E args \in SubArgLists, description \in {None, Some("Replace")} :
        /\ index["eq"] < MaxIndex
        /\ LET s == Equation_substitute(S, args, description, FALSE)
           IN Commit(s, [Call("eq", "substitute", NoArg, "", s)
                            EXCEPT !.nargs = Len(args), !.args = args,
                                   !.description = description])

\* WorkingHistory.combined_step(tag) called on the combined History.
HistCombinedStep ==
    \E tag \in {"on both sides"} :
        /\ index["eq"] < MaxIndex
        /\ LET s == combined_step(S, "eq", tag, {})
           IN Commit(s, Call("history", "combined_step", NoArg, "", s))

\* WorkingHistory.end_combined_step() called on the combined History.
HistEndCombinedStep ==
    /\ index["eq"] <= MaxIndex
    /\ LET s == end_combined_step(S, "eq")
       IN Commit(s, Call("history", "end_combined_step", NoArg, "", s))

\* eq.left.add(other), eq.right.add(other)
SideAdd ==
    \E e \in Sides, other \in {IntArg(2)} :
        /\ index["eq"] < MaxIndex
        /\ LET s == Expression_add(S, e, other)
           IN Commit(s, Call(e, "add", other, "", s))

\* The sessions modelled hold at most as many attachments as there are sinks.
Attached == Len(outputs["eq"]) + Len(outputs["left"]) + Len(outputs["right"])
MayAttach == Attached < Cardinality(Sinks) /\ Len(lines) < MaxLines

\* eq.attach_output(o, skip_start_state)
EqAttachOutput ==
    \E o \in Sinks, skip_start_state \in BOOLEAN :
        /\ MayAttach
        /\ LET s == Equation_attach_output(S, o, skip_start_state)
           IN Commit(s, Call("eq", "attach_output", NoArg, "", s))

\* eq.left.attach_output(o, skip_start_state), likewise for eq.right
ExprAttachOutput ==
    \E e \in Sides, o \in Sinks, skip_start_state \in BOOLEAN :
        /\ MayAttach
        /\ LET s == Expression_attach_output(S, e, o, skip_start_state)
           IN Commit(s, Call(e, "attach_output", NoArg, "", s))

\* exp.add(other)
ExpAdd ==
    \E other \in IntOperands :
        /\ index["exp"] < MaxIndex
        /\ LET s == Expression_add(S, "exp", other)
           IN Commit(s, Call("exp", "add", other, "", s))

\* eq.left.substitute(*args), eq.right.substitute(*args)
SideSubstitute ==
    \E e \in Sides, args \in SubArgLists :
        /\ index["eq"] < MaxIndex
        /\ LET s == Expression_substitute(S, e, args, "Substitute", FALSE)
           IN Commit(s, [Call(e, "substitute", NoArg, "", s)
                            EXCEPT !.nargs = Len(args), !.args = args])

\* The sink has been called, by whichever object.
Used(o) == \E i \in 1..Len(lines) : lines[i].sink = o

\* exp.attach_output(o, skip_start_state)
ExpAttachOutput ==
    \E o \in ExpSinks, skip_start_state \in BOOLEAN :
        /\ skip_start_state \/ Len(lines) < MaxLines
        /\ LET s == Expression_attach_output(S, "exp", o, skip_start_state)
           IN Commit(s, [Call("exp", "attach_output", NoArg, "", s)
                            EXCEPT !.sink = o, !.skip = skip_start_state])

\* exp.detach_output(o)
ExpDetachOutput ==
    \E o \in ExpSinks :
        LET s == Expression_detach_output(S, "exp", o)
        IN Commit(s, [Call("exp", "detach_output", NoArg, "", s) EXCEPT !.sink = o])

\* exp.write_history_to(o, skip_start_state), with a sink that has not
\* been used before.
ExpWriteHistoryTo ==
    \E o \in ExpSinks, skip_start_state \in BOOLEAN :
        /\ ~Used(o)
        /\ \A i \in 1..Len(outputs["exp"]) : outputs["exp"][i] # o
        /\ LET s == Expression_write_history_to(S, "exp", o, skip_start_state)
           IN Commit(s, [Call("exp", "write_history_to", NoArg, "", s)
                            EXCEPT !.sink = o, !.skip = skip_start_state])

\* Side-wise calls and direct use of the combined History's grouping API.
Next ==
    \/ SideArith
    \/ SideApply
    \/ HistCombinedStep
    \/ HistEndCombinedStep

Spec == Init /\ [][Next]_vars

\* Side-wise calls with sinks attached to the Equation and to its sides.
NextOut ==
    \/ SideAdd
    \/ SideApply
    \/ EqAttachOutput
    \/ ExprAttachOutput

\* Equation(1, 0)
InitOut == Init /\ expr["left"] = 1 /\ expr["right"] = 0

SpecOut == InitOut /\ [][NextOut]_vars

\* Equation-wide calls between side-wise calls.
NextEq ==
    \/ SideArith
    \/ EqArith
    \/ EqTransform
    \/ EqSwapSides
    \/ EqApply
    \/ EqSubstitute

SpecEq == Init /\ [][NextEq]_vars

\* WorkingHistory.write_all_to(o, skip_start_state) called on the combined
\* History, with a sink that has not been used before.
HistWriteAllTo ==
    \E o \in ExpSinks, skip_start_state \in BOOLEAN :
        /\ ~Used(o)
        /\ \A i \in 1..Len(outputs["eq"]) : outputs["eq"][i] # o
        /\ LET s == write_all_to(S, "eq", o, skip_start_state)
           IN Commit(s, [Call("history", "write_all_to", NoArg, "", s)
                            EXCEPT !.sink = o, !.skip = skip_start_state])

\* A session that has so far worked on the Equation only, or on the
\* standalone Expression only.
EquationSession == call.obj \in {"", "eq", "left", "right", "history"}
ExpressionSession == call.obj \in {"", "exp"}

\* Sessions that record steps with a sink attached and replay the log to
\* another sink: on the standalone Expression, or on the Equation with
\* steps grouped on its combined History.
NextReplay ==
    \/ ExpressionSession /\ ExpAdd
    \/ ExpressionSession /\ ExpAttachOutput
    \/ ExpressionSession /\ ExpWriteHistoryTo
    \/ EquationSession /\ SideAdd
    \/ EquationSession /\ HistCombinedStep
    \/ EquationSession /\ HistEndCombinedStep
    \/ EquationSession /\ EqAttachOutput
    \/ EquationSession /\ HistWriteAllTo

SpecReplay == InitOut /\ [][NextReplay]_vars

\* Equation-wide and side-wise calls with sinks attached to the Equation.
NextEqOut ==
    \/ EqAttachOutput
    \/ EqArith
    \/ SideAdd

SpecEqOut == InitOut /\ [][NextEqOut]_vars

\* The standalone Expression with sinks attached and detached between steps.
NextExp ==
    \/ ExpAdd
    \/ ExpAttachOutput
    \/ ExpDetachOutput

SpecExp == InitOut /\ [][NextExp]_vars

\* substitute called on the sides of the Equation.
NextSub ==
    \/ SideAdd
    \/ SideSubstitute

SpecSub == Init /\ [][NextSub]_vars

\* eq.detach_output(o)
EqDetachOutput ==
    \E o \in Sinks :
        LET s == Equation_detach_output(S, o)
        IN Commit(s, [Call("eq", "detach_output", NoArg, "", s) EXCEPT !.sink = o])

\* Every kind of call that touches a log: side-wise and Equation-wide
\* operations, grouping contexts, sinks attached and detached, replay.
NextLog ==
    \/ SideAdd
    \/ EqApply
    \/ EqSwapSides
    \/ HistCombinedStep
    \/ HistEndCombinedStep
    \/ EqAttachOutput
    \/ EqDetachOutput
    \/ Len(lines) < MaxLines /\ HistWriteAllTo

SpecLog == InitOut /\ [][NextLog]_vars

\* Equation-wide and side-wise calls with sinks attached to the sides.
NextEqSide ==
    \/ ExprAttachOutput
    \/ EqArith
    \/ SideAdd

SpecEqSide == InitOut /\ [][NextEqSide]_vars

\* ----------------------------------------------------------------- claims
Last(q) == q[Len(q)]

\* The call that has just returned or raised (the step's new call).
Called(obj, op) == call'.obj = obj /\ call'.op = op

\* What an arithmetic operation makes of value v and operand value o.
arith(op, v, o) == IF op = "add" THEN v + o
                   ELSE IF op = "subtract" THEN v - o
                   ELSE v * o

\* C1: an Equation-wide add(k) appends exactly one step to the combined
\* History; its children are two sub-steps suffixed " on left side" and
\* " on right side", its before is the (left, right) pair before the call
\* and its after is the pair after the call.
C1_AddIsOneAggregate ==
    [][Called("eq", "add") =>
         /\ Len(history'["eq"]) = Len(history["eq"]) + 1
         /\ LET step == Last(history'["eq"])
            IN /\ step.children # None
               /\ Len(step.children[1]) = 2
               /\ step.children[1][1].suffix = Some(" on left side")
               /\ step.children[1][2].suffix = Some(" on right side")
               /\ step.before = <<expr["left"], expr["right"]>>
               /\ step.after = <<expr'["left"], expr'["right"]>>]_vars

\* C2: with well-typed operands every Equation-wide convenience operation
\* opens its grouping context, runs on left and on right, closes the
\* context and returns without raising.
C2_EquationWideReturns ==
    /\ call.obj = "eq"
    /\ \/ call.op \in ArithOps \cup {"factor", "swap_sides"}
       \/ call.op = "substitute" /\ call.nargs = 2
    => /\ call.exc = NoExc
       /\ combined_context["eq"] = None

\* C7: when an Equation-wide operation fails because an enclosed side
\* operation raises (substitute with no argument raises on the left side
\* before any sub-step is buffered), the caller sees that original error
\* and no grouping context stays active on the combined History.
C7_FailedScopeIsClosed ==
    call.obj = "eq" /\ call.op = "substitute" /\ call.nargs = 0
    => /\ call.exc = "ValueError"
       /\ combined_context["eq"] = None

\* C8: Equation-wide add, subtract and multiply_by apply to both sides the
\* value the operand had when the call was made, also when the operand is
\* the Equation's own left or right Expression.
C8_SameOperandOnBothSides ==
    [][call'.obj = "eq" /\ call'.op \in ArithOps =>
         LET o == as_expr(S, call'.arg)
         IN /\ expr'["left"] = arith(call'.op, expr["left"], o)
            /\ expr'["right"] = arith(call'.op, expr["right"], o)]_vars

\* C9: after swap_sides() the left value is the original right value and
\* the right value is the original left value.
C9_SwapSidesSwapsValues ==
    [][Called("eq", "swap_sides") =>
         /\ expr'["left"] = expr["right"]
         /\ expr'["right"] = expr["left"]]_vars

\* The steps buffered in the combined History's active grouping context.
Buffered(ctx) == IF ctx = None THEN <<>> ELSE ctx[1].sub_steps

\* C3: a mutator called directly on one side while no grouping context is
\* open appends one step to that side's History and one top-level step to
\* the combined History, suffixed " on <side> side" and without children;
\* the other side's value and History are unchanged.
C3_SideCallPropagatesUngrouped ==
    [][\A e \in Sides :
         (call'.obj = e /\ call'.op \in ArithOps /\ combined_context["eq"] = None) =>
             LET other == IF e = "left" THEN "right" ELSE "left"
             IN /\ Len(history'[e]) = Len(history[e]) + 1
                /\ Len(history'["eq"]) = Len(history["eq"]) + 1
                /\ SubSeq(history'["eq"], 1, Len(history["eq"])) = history["eq"]
                /\ Last(history'["eq"]).suffix = Some(" on " \o e \o " side")
                /\ Last(history'["eq"]).children = None
                /\ combined_context'["eq"] = None
                /\ expr'[other] = expr[other]
                /\ history'[other] = history[other]]_vars

C3_Witness ==
    /\ call.obj = "left" /\ call.op = "add" /\ call.exc = NoExc
    /\ combined_context["eq"] = None
    /\ Len(history["left"]) = 1
    /\ Len(history["eq"]) = 1
    /\ Last(history["eq"]).suffix = Some(" on left side")
    /\ Last(history["eq"]).children = None

\* C4: a step appended to a side History produces exactly one propagated
\* step on the combined History: appended to its log when no grouping
\* context is active, buffered in the context when one is.
C4_PropagatedExactlyOnce ==
    [][\A e \in Sides :
         Len(history'[e]) = Len(history[e]) + 1 =>
             IF combined_context["eq"] = None
             THEN /\ Len(history'["eq"]) = Len(history["eq"]) + 1
                  /\ Last(history'["eq"]).index = Last(history'[e]).index
                  /\ Last(history'["eq"]).description = Last(history'[e]).description
                  /\ combined_context'["eq"] = None
             ELSE /\ history'["eq"] = history["eq"]
                  /\ combined_context'["eq"] # None
                  /\ Len(Buffered(combined_context'["eq"]))
                       = Len(Buffered(combined_context["eq"])) + 1
                  /\ Last(Buffered(combined_context'["eq"])).index
                       = Last(history'[e]).index]_vars

C4_Witness ==
    /\ call.obj \in Sides /\ call.exc = NoExc
    /\ Len(history["eq"]) = 1
    /\ Len(Buffered(combined_context["eq"])) = 1
    /\ Len(history["left"]) + Len(history["right"]) = 2

\* The aggregate steps of the combined History, the only steps it issues
\* an index for itself.
Aggregates == SelectSeq(history["eq"], LAMBDA st : st.children # None)

Issued == history["left"] \o history["right"] \o Aggregates

Increasing(q) == \A i, j \in 1..Len(q) : i < j => q[i].index < q[j].index

\* A log in propagation order: the children of an aggregate, then the aggregate.
RECURSIVE Flatten(_)
Flatten(q) ==
    IF q = <<>> THEN <<>>
    ELSE (IF Head(q).children = None THEN <<>> ELSE Head(q).children[1])
         \o <<Head(q)>> \o Flatten(Tail(q))

\* C5: the indices issued to the steps of an Equation's three Histories are
\* 0, 1, 2, ... with no gap and no repeat (one shared Index Source starting
\* at 0), and each log, flattened to propagation order, is strictly increasing.
C5_IndicesGaplessAndIncreasing ==
    /\ \A i \in 0..(Len(Issued) - 1) :
           Cardinality({k \in 1..Len(Issued) : Issued[k].index = i}) = 1
    /\ index["eq"] = Len(Issued)
    /\ \A e \in Sides : Increasing(history[e])
    /\ Increasing(Flatten(history["eq"]))

C5_Witness ==
    /\ Len(history["left"]) >= 1
    /\ Len(history["right"]) >= 1
    /\ Len(Aggregates) = 1
    /\ Len(history["eq"]) = 2

\* C10: every successful mutator call on an Expression appends exactly one
\* step to its History, the value changes only when a step is appended,
\* and the value is the after of the last step.
C10_ValueIsLastAfter ==
    [][\A e \in Sides :
         /\ (call'.obj = e /\ call'.exc = NoExc) =>
                Len(history'[e]) = Len(history[e]) + 1
         /\ history'[e] # history[e] =>
                /\ SubSeq(history'[e], 1, Len(history[e])) = history[e]
                /\ Last(history'[e]).after = <<expr'[e]>>
         /\ history'[e] = history[e] => expr'[e] = expr[e]]_vars

C10_Witness ==
    /\ call.obj = "left" /\ call.op = "subtract" /\ call.exc = NoExc
    /\ Len(history["left"]) = 2
    /\ Last(history["left"]).after = <<expr["left"]>>
    /\ history["left"][1].after # <<expr["left"]>>

Mutators == ArithOps \cup {"apply", "factor"}

\* C6 as claimed: a mutating call on an Expression that fails, for whatever
\* reason, leaves the value unmodified, appends no step to its History or
\* to the parent History, and notifies no sink.
C6_FailedCallChangesNothing ==
    [][(call'.obj \in Sides /\ call'.op \in Mutators /\ call'.exc # NoExc) =>
         /\ expr' = expr
         /\ history' = history
         /\ lines' = lines]_vars

\* C6 as amended: a mutating call on an Expression that fails because the
\* transform raises leaves the value unmodified, appends no step to its
\* History or to the parent History, consumes no index and notifies no sink.
C6_FailedTransformChangesNothing ==
    [][(call'.obj \in Sides /\ call'.op \in Mutators
          /\ call'.exc = "TransformError") =>
         /\ expr' = expr
         /\ history' = history
         /\ current_state' = current_state
         /\ last_state' = last_state
         /\ combined_context' = combined_context
         /\ index' = index
         /\ lines' = lines]_vars

C6_Witness ==
    /\ call.obj = "left" /\ call.op = "apply" /\ call.exc = "TransformError"
    /\ outputs["left"] = <<"md1">>
    /\ outputs["eq"] = <<"md1">>
    /\ Len(history["left"]) = 1
    /\ Len(lines) >= 4

\* The (left, right) pair the Equation stands for.
Pair == <<expr["left"], expr["right"]>>

\* C11: after construction and after every operation on the Equation or on
\* one of its sides, the combined History's current state is the pair
\* (left value, right value), and the after of the most recent top-level
\* step of the combined History is that pair.
C11_CombinedStateIsThePair ==
    /\ current_state["eq"] = Pair
    /\ history["eq"] # <<>> => Last(history["eq"]).after = Pair

C11_Witness ==
    /\ call.obj = "eq" /\ call.op = "apply" /\ call.exc = NoExc
    /\ Len(history["eq"]) = 3
    /\ history["eq"][1].after # Pair
    /\ Last(history["eq"]).after = Pair
    /\ current_state["eq"] = Pair

\* The snapshot of the value e's owner was constructed with.
ConstructedState(h) ==
    IF h = "eq" THEN <<constructed["left"], constructed["right"]>>
    ELSE <<constructed[h]>>

\* C12: in every History the first step's before is the value the owner
\* held at construction, and every later step's before is the after of the
\* step before it in the same log.
C12_BeforeChainsFromConstruction ==
    \A h \in HistIds :
        /\ history[h] # <<>> => history[h][1].before = ConstructedState(h)
        /\ \A i \in 2..Len(history[h]) :
               history[h][i].before = history[h][i - 1].after

\* C13: ending a grouping context in which no sub-step was buffered
\* raises nothing, appends no step, consumes no index and leaves no
\* grouping context active.
C13_EmptyScopeEndsQuietly ==
    [][(/\ Called("history", "end_combined_step")
        /\ combined_context["eq"] # None
        /\ Buffered(combined_context["eq"]) = <<>>) =>
         /\ call'.exc = NoExc
         /\ history' = history
         /\ index' = index
         /\ combined_context'["eq"] = None]_vars

\* Argument lists substitute rejects: none, one that is neither a sympy.Eq
\* nor an Equation, more than two.
BadSubstituteArgs(args) ==
    \/ Len(args) = 0
    \/ Len(args) > 2
    \/ Len(args) = 1 /\ args[1].kind = "expr"

\* C14: substitute called on an Expression with a rejected argument list
\* raises ValueError, leaves the value unchanged and appends no step to any
\* History.
C14_BadSubstituteArgsRejected ==
    [][(call'.obj \in Sides /\ call'.op = "substitute"
          /\ BadSubstituteArgs(call'.args)) =>
         /\ call'.exc = "ValueError"
         /\ expr' = expr
         /\ history' = history
         /\ current_state' = current_state
         /\ index' = index
         /\ substitutions' = substitutions]_vars

C14_Witness ==
    /\ call.obj = "left" /\ call.op = "substitute" /\ call.nargs = 3
    /\ call.exc = "ValueError"
    /\ Len(history["left"]) = 1
    /\ Len(history["eq"]) = 1

SinkCalls(q, o) == SelectSeq(q, LAMBDA c : c.sink = o)

\* What was sent in the calls of q, whichever sink received them.
Content(q) == [i \in 1..Len(q) |-> [items |-> q[i].items, inline |-> q[i].inline]]

LastN(q, n) == SubSeq(q, Len(q) - n + 1, Len(q))

\* The number of step notifications sink o received (the description of a
\* step is the only call made with inline=True).
StepCount(q, o) == Cardinality({i \in 1..Len(q) : q[i].sink = o /\ q[i].inline})

IsAttached(h, o) == \E i \in 1..Len(outputs[h]) : outputs[h][i] = o

\* Sink o is attached to History h and has received every step of h's log
\* as the step was appended: the last calls it received are one
\* notification (description inline, then the after state) per step.
ReceivedLive(h, o) ==
    LET q == SinkCalls(lines, o)
        n == 2 * Len(history[h])
    IN /\ IsAttached(h, o)
       /\ StepCount(lines, o) = Len(history[h])
       /\ Len(q) >= n
       /\ \A i \in 1..n : LastN(q, n)[i].inline = (i % 2 = 1)

\* The calls added to the log of sink calls by the step.
NewLines == SubSeq(lines', Len(lines) + 1, Len(lines'))

\* C16: when the log of a History (the standalone Expression's, or the
\* combined History with aggregate steps) is replayed to a sink, that sink
\* receives, after the start-state framing, the same calls in the same
\* order as a sink that was attached while every step of the log was
\* appended; the replay changes nothing in the History.
C16_ReplayEqualsLive ==
    [][\A h \in {"exp", "eq"}, live \in ExpSinks :
         (/\ call'.obj = (IF h = "exp" THEN "exp" ELSE "history")
          /\ call'.op \in {"write_history_to", "write_all_to"}
          /\ call'.exc = NoExc
          /\ ReceivedLive(h, live)) =>
             LET n == 2 * Len(history[h])
             IN /\ history' = history
                /\ SubSeq(lines', 1, Len(lines)) = lines
                /\ \A i \in 1..Len(NewLines) : NewLines[i].sink = call'.sink
                /\ Len(NewLines) = n + (IF call'.skip THEN 0 ELSE 2)
                /\ Content(LastN(NewLines, n))
                      = Content(LastN(SinkCalls(lines, live), n))]_vars

C16_Witness ==
    /\ call.obj = "history" /\ call.op = "write_all_to" /\ call.exc = NoExc
    /\ call.sink = "md2" /\ ~call.skip
    /\ outputs["eq"] = <<"md1">>
    /\ Len(history["eq"]) = 2
    /\ Len(Aggregates) = 1
    /\ ReceivedLive("eq", "md1")
    /\ StepCount(lines, "md2") = 2
    /\ Content(LastN(SinkCalls(lines, "md2"), 4))
          = Content(LastN(SinkCalls(lines, "md1"), 4))

\* C17: attaching a sink that is already attached leaves it held once and
\* sends it no step notification; every later step is then notified to
\* each attached sink exactly once; detaching a sink that is not attached
\* raises nothing and changes neither the attached sinks nor anything else.
C17_AttachTwiceIsAttachOnce ==
    [][/\ (/\ call'.obj = "exp" /\ call'.op = "attach_output"
            /\ call'.exc = NoExc /\ IsAttached("exp", call'.sink)) =>
              /\ outputs' = outputs
              /\ history' = history
              /\ StepCount(lines', call'.sink) = StepCount(lines, call'.sink)
              /\ call'.skip => lines' = lines
       /\ \A i, j \in 1..Len(outputs'["exp"]) :
              i # j => outputs'["exp"][i] # outputs'["exp"][j]
       /\ (call'.obj = "exp" /\ call'.op = "add" /\ call'.exc = NoExc) =>
              \A o \in ExpSinks :
                  IF IsAttached("exp", o)
                  THEN /\ StepCount(lines', o) = StepCount(lines, o) + 1
                       /\ Len(SinkCalls(lines', o)) = Len(SinkCalls(lines, o)) + 2
                  ELSE SinkCalls(lines', o) = SinkCalls(lines, o)
       /\ (/\ call'.obj = "exp" /\ call'.op = "detach_output"
            /\ ~IsAttached("exp", call'.sink)) =>
              /\ call'.exc = NoExc
              /\ outputs' = outputs
              /\ history' = history
              /\ lines' = lines]_vars

\* The sink received a step while attached and has just been attached again.
C17_Witness ==
    /\ call.obj = "exp" /\ call.op = "attach_output" /\ call.exc = NoExc
    /\ call.sink = "md1"
    /\ outputs["exp"] = <<"md1">>
    /\ Len(history["exp"]) = 1
    /\ StepCount(lines, "md1") = 1

\* The object a replay of History h is called on.
ReplayOf(h) ==
    /\ call'.obj = (IF h = "exp" THEN "exp" ELSE "history")
    /\ call'.op \in {"write_history_to", "write_all_to"}

\* C18 as claimed: write_all_to on a History whose log is empty fails, and
\* the sink is not written to.
C18_EmptyLogReplayFails ==
    [][\A h \in {"exp", "eq"} :
         (ReplayOf(h) /\ history[h] = <<>>) =>
             /\ call'.exc # NoExc
             /\ lines' = lines]_vars

\* C18 as amended: on a History whose log is empty, write_all_to with
\* skip_start_state false sends the sink the "Initial state" heading and
\* then raises IndexError; with skip_start_state true it writes nothing
\* and returns.  The History is unchanged either way.
C18_EmptyLogReplayWritesHeadingThenFails ==
    [][\A h \in {"exp", "eq"} :
         (ReplayOf(h) /\ history[h] = <<>> /\ call'.sink \notin BadSinks) =>
             /\ history' = history
             /\ outputs' = outputs
             /\ IF call'.skip
                THEN call'.exc = NoExc /\ lines' = lines
                ELSE /\ call'.exc = "IndexError"
                     /\ lines' = Append(lines, [sink |-> call'.sink,
                                                items |-> <<Str("Initial state")>>,
                                                inline |-> FALSE])]_vars

C18_Witness ==
    /\ call.obj = "exp" /\ call.op = "write_history_to" /\ ~call.skip
    /\ call.exc = "IndexError"
    /\ history["exp"] = <<>>
    /\ lines = <<[sink |-> call.sink, items |-> <<Str("Initial state")>>,
                  inline |-> FALSE]>>

\* C19: an Equation-wide add, subtract or multiply_by sends a sink
\* attached to the Equation exactly one notification, the merged step's:
\* the description inline and then, as the last call, the (left, right)
\* pair both sides have after the call.
C19_OneNotificationForMergedStep ==
    [][\A o \in GoodSinks :
         (/\ call'.obj = "eq" /\ call'.op \in ArithOps
          /\ outputs["eq"] = <<o>>) =>
             /\ StepCount(lines', o) = StepCount(lines, o) + 1
             /\ Len(NewLines) = 2
             /\ Len(history'["eq"]) = Len(history["eq"]) + 1
             /\ Last(history'["eq"]).children # None
             /\ Last(lines') = [sink |-> o,
                               items |-> <<Val(<<expr'["left"], expr'["right"]>>)>>,
                               inline |-> FALSE]]_vars

\* C20: when a mutating call on an Expression returns, the step it
\* appended has been sent to every attached sink, the sinks having been
\* called in the order they were attached (description inline, then the
\* after state); and a sink that was attached for every step holds the
\* steps in the order of the log.
C20_SinksNotifiedInAttachmentOrder ==
    [][(call'.obj = "exp" /\ call'.op = "add" /\ call'.exc = NoExc) =>
         LET step == Last(history'["exp"])
             outs == outputs["exp"]
             n == 2 * Len(history'["exp"])
         IN /\ Len(history'["exp"]) = Len(history["exp"]) + 1
            /\ SubSeq(lines', 1, Len(lines)) = lines
            /\ Len(NewLines) = 2 * Len(outs)
            /\ \A i \in 1..Len(outs) :
                   /\ NewLines[2 * i - 1] =
                          [sink |-> outs[i],
                           items |-> <<Str(step.description), Val(step.args[1]),
                                       Str("")>>,
                           inline |-> TRUE]
                   /\ NewLines[2 * i] =
                          [sink |-> outs[i], items |-> <<Val(step.after)>>,
                           inline |-> FALSE]
            /\ \A o \in ExpSinks :
                   ReceivedLive("exp", o)' =>
                       \A i \in 1..Len(history'["exp"]) :
                           LastN(SinkCalls(lines', o), n)[2 * i].items
                               = <<Val(history'["exp"][i].after)>>]_vars

C20_Witness ==
    /\ call.obj = "exp" /\ call.op = "add" /\ call.exc = NoExc
    /\ outputs["exp"] = <<"md2", "md1">>
    /\ Len(history["exp"]) = 2
    /\ Len(lines) = 8
    /\ [i \in 1..4 |-> LastN(lines, 4)[i].sink] = <<"md2", "md2", "md1", "md1">>
    /\ ReceivedLive("exp", "md2")

\* C21: in the sequence multiply_by(2), right.factor(), subtract(right),
\* multiply_by(2) doubles both sides and adds one entry to the combined
\* History, and subtract(right) leaves right = 0 and left = the left value
\* minus the right value, and adds one entry with two children (with the
\* entry of right.factor(), three top-level entries in total).
C21_MultiplyFactorSubtract ==
    [][/\ (Called("eq", "multiply_by") /\ call'.arg = IntArg(2)) =>
              /\ call'.exc = NoExc
              /\ expr'["left"] = 2 * expr["left"]
              /\ expr'["right"] = 2 * expr["right"]
              /\ Len(history'["eq"]) = Len(history["eq"]) + 1
       /\ (Called("eq", "subtract") /\ call'.arg = ExprArg("right")) =>
              /\ call'.exc = NoExc
              /\ expr'["right"] = 0
              /\ expr'["left"] = expr["left"] - expr["right"]
              /\ Len(history'["eq"]) = Len(history["eq"]) + 1
              /\ Last(history'["eq"]).children # None
              /\ Len(Last(history'["eq"]).children[1]) = 2]_vars

\* The number of steps of q that carry suffix sfx.
Suffixed(q, sfx) == Cardinality({i \in 1..Len(q) : q[i].suffix = Some(sfx)})

\* C23: ending a grouping context that holds buffered sub-steps appends
\* one aggregate step: description, args and before of the first
\* sub-step, after of the last, the buffered sub-steps as children, the
\* tag as suffix; swap_sides appends one aggregate with six children,
\* three from the left side and three from the right side.
C23_AggregateSummarisesBuffer ==
    [][/\ (/\ Called("history", "end_combined_step")
            /\ Buffered(combined_context["eq"]) # <<>>) =>
              LET sub == Buffered(combined_context["eq"])
                  step == Last(history'["eq"])
              IN /\ Len(history'["eq"]) = Len(history["eq"]) + 1
                 /\ step.description = sub[1].description
                 /\ step.args = sub[1].args
                 /\ step.before = sub[1].before
                 /\ step.after = Last(sub).after
                 /\ step.children = Some(sub)
                 /\ step.suffix = Some(combined_context["eq"][1].tag)
       /\ Called("eq", "swap_sides") =>
              /\ Len(history'["eq"]) = Len(history["eq"]) + 1
              /\ Last(history'["eq"]).children # None
              /\ Len(Last(history'["eq"]).children[1]) = 6
              /\ Suffixed(Last(history'["eq"]).children[1], " on left side") = 3
              /\ Suffixed(Last(history'["eq"]).children[1], " on right side") = 3]_vars

\* C24: the aggregate step of an Equation-wide operation carries the
\* description and args the operation passed when it opened the grouping
\* context: swap_sides records "Swap left and right sides", no args and an
\* empty suffix; substitute(a, b, description=d) records description d.
C24_ContextDescriptionNamesAggregate ==
    [][/\ Called("eq", "swap_sides") =>
              /\ Len(history'["eq"]) = Len(history["eq"]) + 1
              /\ Last(history'["eq"]).description = "Swap left and right sides"
              /\ Last(history'["eq"]).args = <<>>
              /\ Last(history'["eq"]).suffix = Some("")
       /\ (/\ Called("eq", "substitute") /\ call'.nargs = 2
            /\ call'.description # None) =>
              /\ Len(history'["eq"]) = Len(history["eq"]) + 1
              /\ Last(history'["eq"]).description = call'.description[1]]_vars

\* C25: Equation.apply opens no grouping context; when it returns, the
\* combined History has gained exactly two top-level steps, the first
\* suffixed ' on left side' and the second ' on right side', both without
\* children and with one shared description, copied from the steps the two
\* sides logged.
C25_ApplyLogsTwoPlainSteps ==
    [][Called("eq", "apply") /\ call'.exc = NoExc /\ combined_context["eq"] = None
        => LET n == Len(history["eq"])
               q == history'["eq"]
           IN /\ combined_context'["eq"] = None
              /\ Len(q) = n + 2
              /\ SubSeq(q, 1, n) = history["eq"]
              /\ q[n + 1].suffix = Some(" on left side")
              /\ q[n + 2].suffix = Some(" on right side")
              /\ q[n + 1].children = None /\ q[n + 2].children = None
              /\ q[n + 1].description = q[n + 2].description
              /\ q[n + 1].description = "Apply '" \o call'.f \o "'"
              /\ q[n + 1].index = Last(history'["left"]).index
              /\ q[n + 2].index = Last(history'["right"]).index
              /\ expr'["left"] = sympy_func(call'.f, expr["left"])
              /\ expr'["right"] = sympy_func(call'.f, expr["right"])]_vars

C25_Witness ==
    /\ call.obj = "eq" /\ call.op = "apply" /\ call.f = "Abs" /\ call.exc = NoExc
    /\ Len(history["eq"]) = 2
    /\ history["eq"][1].suffix = Some(" on left side")
    /\ history["eq"][2].suffix = Some(" on right side")
    /\ history["eq"][1].children = None /\ history["eq"][2].children = None
    /\ history["eq"][1].description = "Apply 'Abs'"

\* C22: whatever is called, each History's log before the call is a prefix
\* of its log after the call: no step is removed, reordered or replaced.
IsPrefix(p, q) == Len(p) <= Len(q) /\ SubSeq(q, 1, Len(p)) = p

C22_LogOnlyGrows ==
    [][\A h \in HistIds : IsPrefix(history[h], history'[h])]_vars

\* A sink that was notified of a step is detached from a two-step log.
C22_Witness ==
    /\ call.op = "detach_output" /\ call.sink = "md1" /\ call.exc = NoExc
    /\ Len(history["eq"]) = 2
    /\ history["eq"][1].index < history["eq"][2].index
    /\ outputs["eq"] = <<>>
    /\ \E i \in 1..Len(lines) : lines[i].sink = "md1" /\ lines[i].inline

\* C26: when an Equation-wide operation is called whose left operation
\* succeeds and whose right operation raises (the operation on left, run
\* on its own, returns; the one on right, run after it, raises), the
\* caller sees the right operation's error, left holds its new value, right
\* holds its old value, and the combined History gains one aggregate step
\* with exactly one child.
C26_RightFailureKeepsLeft ==
    [][\A op \in ArithOps :
        LET l == Expression_arith(S, "left", op, call'.arg)
            r == Expression_arith(l, "right", op, call'.arg)
        IN Called("eq", op) /\ combined_context["eq"] = None
           /\ ~Raised(l) /\ Raised(r)
           => /\ call'.exc = r.exc
              /\ expr'["left"] = l.expr["left"]
              /\ expr'["right"] = expr["right"]
              /\ Len(history'["eq"]) = Len(history["eq"]) + 1
              /\ Last(history'["eq"]).children # None
              /\ Len(Last(history'["eq"]).children[1]) = 1]_vars

\* The sinks of q attached before its first raising sink.
BeforeBad(q) ==
    LET bad == {i \in 1..Len(q) : q[i] \in BadSinks}
    IN IF bad = {} THEN q
       ELSE SubSeq(q, 1, (CHOOSE i \in bad : \A j \in bad : i <= j) - 1)

HasBad(q) == \E i \in 1..Len(q) : q[i] \in BadSinks

\* The sinks, in order, that received the calls of q (two calls per step).
Notified(q) == [i \in 1..(Len(q) \div 2) |-> q[2 * i].sink]

\* C27: when a side-wise operation fails because a sink raised, the caller
\* sees the sink's error and only the sinks attached before the raising one
\* were notified (the combined History's sinks first, the side's own sinks
\* only if none of the combined History's raised); the side's value is the
\* new one, and the step is in the side's log and, propagated, in the
\* combined log.
C27_RaisingSinkAfterStore ==
    [][\A e \in Sides :
        call'.obj = e /\ call'.op \in {"add", "apply"} /\ call'.exc = "SinkError"
        => LET new == IF call'.op = "add" THEN expr[e] + as_expr(S, call'.arg)
                      ELSE sympy_func(call'.f, expr[e])
           IN /\ expr'[e] = new
              /\ Len(history'[e]) = Len(history[e]) + 1
              /\ Last(history'[e]).after = <<new>>
              /\ Len(history'["eq"]) = Len(history["eq"]) + 1
              /\ Last(history'["eq"]).index = Last(history'[e]).index
              /\ Last(history'["eq"]).suffix = Some(" on " \o e \o " side")
              /\ Len(NewLines) % 2 = 0
              /\ Notified(NewLines) =
                     IF HasBad(outputs["eq"]) THEN BeforeBad(outputs["eq"])
                     ELSE outputs["eq"] \o BeforeBad(outputs[e])]_vars

\* left.add fails in the first of two sinks attached to left: the second
\* was not notified, the step is in both logs and the value is replaced.
C27_Witness ==
    /\ call.obj = "left" /\ call.op = "add" /\ call.exc = "SinkError"
    /\ outputs["left"] = <<"bad", "md1">>
    /\ StepCount(lines, "md1") = 0
    /\ Len(history["left"]) = 1 /\ Len(history["eq"]) = 1
    /\ expr["left"] = 3

\* The suffix text and the after state of each notification in q.
Suffixes(q) == [i \in 1..(Len(q) \div 2) |-> Last(q[2 * i - 1].items).text]
Afters(q) == [i \in 1..(Len(q) \div 2) |-> q[2 * i].items[1].val]

\* C30: a step appended to a side's History, with no grouping context open,
\* is stored in the side's log, then handed to the combined History, whose
\* sinks are notified of the propagated copy (suffix " on <side> side",
\* after state the pair), and only then are the side's own sinks notified
\* (empty suffix, after state the side's value). If a sink of the combined
\* History raises, the step is already in the side's log and no sink of the
\* side has been notified.
C30_StoreThenParentThenOwnSinks ==
    [][\A e \in Sides :
        call'.obj = e /\ call'.op \in {"add", "apply"}
        /\ Len(history'[e]) = Len(history[e]) + 1
        => LET ne == Len(outputs["eq"])
               ns == Len(outputs[e])
               step == Last(history'[e])
               copy == Last(history'["eq"])
           IN /\ Len(history'["eq"]) = Len(history["eq"]) + 1
              /\ copy.index = step.index /\ copy.children = None
              /\ call'.exc = NoExc =>
                    /\ Notified(NewLines) = outputs["eq"] \o outputs[e]
                    /\ Suffixes(NewLines) =
                          [i \in 1..(ne + ns) |->
                              IF i <= ne THEN " on " \o e \o " side" ELSE ""]
                    /\ Afters(NewLines) =
                          [i \in 1..(ne + ns) |->
                              IF i <= ne THEN copy.after ELSE step.after]
              /\ HasBad(outputs["eq"]) =>
                    /\ call'.exc = "SinkError"
                    /\ Notified(NewLines) = BeforeBad(outputs["eq"])
                    /\ Suffixes(NewLines) =
                          [i \in 1..Len(BeforeBad(outputs["eq"])) |->
                              " on " \o e \o " side"]]_vars

\* left.add returned with one sink on the combined History and one on left:
\* the combined History's sink was notified first.
C30_Witness ==
    /\ call.obj = "left" /\ call.op = "add" /\ call.exc = NoExc
    /\ outputs["eq"] = <<"md1">> /\ outputs["left"] = <<"md1">>
    /\ Len(history["left"]) = 1 /\ Len(history["eq"]) = 1
    /\ Len(lines) >= 4
    /\ Suffixes(LastN(lines, 4)) = <<" on left side", "">>
    /\ Afters(LastN(lines, 4)) = << <<3, 0>>, <<3>> >>

\* The side a propagated step's suffix names.
SideOf(st) == IF st.suffix = Some(" on left side") THEN "left" ELSE "right"

\* C28: in the combined History's log the indices of the top-level steps
\* are strictly increasing; a step propagated directly carries the index
\* (and description and args) of a step in the log of the side its suffix
\* names; an aggregate step's index is greater than the index of each of
\* its children, and each child too carries the index of a side step.
C28_CombinedLogIndices ==
    LET q == history["eq"]
        FromSide(st) ==
            /\ st.suffix \in {Some(" on left side"), Some(" on right side")}
            /\ \E k \in 1..Len(history[SideOf(st)]) :
                   LET o == history[SideOf(st)][k]
                   IN /\ o.index = st.index
                      /\ o.description = st.description
                      /\ o.args = st.args
    IN /\ \A i \in 1..(Len(q) - 1) : q[i].index < q[i + 1].index
       /\ \A i \in 1..Len(q) :
              IF q[i].children = None THEN FromSide(q[i])
              ELSE \A k \in 1..Len(q[i].children[1]) :
                      /\ q[i].children[1][k].index < q[i].index
                      /\ FromSide(q[i].children[1][k])

\* A directly propagated step followed by an aggregate step.
C28_Witness ==
    /\ Len(history["eq"]) = 2
    /\ history["eq"][1].children = None
    /\ history["eq"][1].index = 0
    /\ history["eq"][2].children # None
    /\ history["eq"][2].index = 2
    /\ history["eq"][2].children[1][1].index = 1

\* C29: combined_step called on the combined History while a grouping
\* context is active installs a new context with an empty buffer and touches
\* neither the log nor the sinks, so the buffered sub-steps are held nowhere
\* any more; and whatever is called afterwards, a step that enters the log
\* is either the copy of the side step just appended or an aggregate whose
\* children are exactly the buffer of the context active at that call, and
\* the combined History's sinks receive one notification, of that step.
C29_ReplacedContextDropsBuffer ==
    [][/\ Called("history", "combined_step") /\ combined_context["eq"] # None
          => /\ call'.exc = NoExc
             /\ combined_context'["eq"] # None
             /\ Buffered(combined_context'["eq"]) = <<>>
             /\ history' = history
             /\ lines' = lines
       /\ call'.obj \in {"left", "right", "history"}
          /\ call'.op \in {"add", "combined_step", "end_combined_step"}
          => LET n == Len(history["eq"])
                 q == history'["eq"]
             IN IF Len(q) = n THEN q = history["eq"] /\ lines' = lines
                ELSE /\ Len(q) = n + 1
                     /\ IF Called("history", "end_combined_step")
                        THEN /\ Buffered(combined_context["eq"]) # <<>>
                             /\ q[n + 1].children =
                                    Some(Buffered(combined_context["eq"]))
                        ELSE /\ call'.op = "add" /\ combined_context["eq"] = None
                             /\ q[n + 1].children = None
                             /\ q[n + 1].index = Last(history'[call'.obj]).index
                     /\ Notified(NewLines) = BeforeBad(outputs["eq"])
                     /\ \A i \in 1..Len(Afters(NewLines)) :
                            Afters(NewLines)[i] = q[n + 1].after]_vars

\* A context was replaced after one sub-step was buffered; the scope ended
\* after one more: the aggregate has the second sub-step as its only child
\* and the attached sink was notified once.
C29_Witness ==
    /\ call.op = "end_combined_step" /\ call.exc = NoExc
    /\ Len(history["left"]) + Len(history["right"]) = 2
    /\ Len(history["eq"]) = 1
    /\ history["eq"][1].children # None
    /\ Len(history["eq"][1].children[1]) = 1
    /\ history["eq"][1].children[1][1].index = 1
    /\ outputs["eq"] = <<"md1">>
    /\ StepCount(lines, "md1") = 1

====
